---- MODULE Spec2Model ----
(***************************************************************************)
(* Model of src/mod.ts: createConnection, the outbound sink and inbound    *)
(* source it wraps around the raw Deno socket, the background read loop,   *)
(* and the caller / handshake negotiator that drive the two endpoints.     *)
(***************************************************************************)
EXTENDS Integers, Sequences, FiniteSets, TLC

\* ------------------------------------------------------------------ bounds
MaxReads == 2          \* socket reads that return data
MaxChunk == 1          \* most bytes the peer delivers to one read
MaxWrites == 1         \* chunks the owner of the Connection writes to the sink

\* ------------------------------------------------------- program constants
PlainDefaultPort == 80
TlsDefaultPort == 443
BufSize == 1024
MaskLen == 4

\* ------------------------------------------------------------------ inputs
NoPort == -1
Url(s, p) == [scheme |-> s, port |-> p]
\* every scheme; no port, a port the parser keeps, a port equal to the scheme's default
UrlInputs ==
    { Url("ws", NoPort), Url("http", 8080), Url("ws", 80),
      Url("wss", NoPort), Url("https", 80), Url("ftp", 8080) }
UrlCore == { Url("ws", NoPort), Url("ftp", NoPort) }

Names == {"Auth", "auth", "bad name"}
\* contents the caller's header object can have: own properties in insertion order
HeaderInputs ==
    { << >>,
      << [name |-> "auth", value |-> "v1"], [name |-> "Auth", value |-> "v2"] >>,
      << [name |-> "bad name", value |-> "v1"] >> }

ChunkInputs == { <<1, 2>> }
MaskSamples == { [i \in 1..MaskLen |-> 0], [i \in 1..MaskLen |-> 255] }

\* ------------------------------------------------------------ URL parsing
\* the default port the URL parser knows for a scheme (it drops such a port)
SchemeDefault(s) ==
    CASE s \in {"http", "ws"} -> 80
      [] s \in {"https", "wss"} -> 443
      [] s = "ftp" -> 21
      [] OTHER -> NoPort

RECURSIVE Digits(_)
Digits(n) == IF n < 10 THEN <<n>> ELSE Append(Digits(n \div 10), n % 10)

\* parsedURL.port: "" when absent or equal to the scheme's default
UrlPort(u) ==
    IF u.port = NoPort \/ u.port = SchemeDefault(u.scheme) THEN << >> ELSE Digits(u.port)

RECURSIVE ParseInt(_)
ParseInt(ds) == IF ds = << >> THEN 0 ELSE 10 * ParseInt(SubSeq(ds, 1, Len(ds) - 1)) + ds[Len(ds)]

\* port || '80'
OrDefault(ds, d) == IF ds = << >> THEN Digits(d) ELSE ds

IsPlain(s) == s = "http" \/ s = "ws"
IsTls(s) == s = "https" \/ s = "wss"

\* faulty variant: the TLS branch falls back to the plain default port
DialForPlainDefault(u) ==
    IF IsPlain(u.scheme)
    THEN [kind |-> "plain", port |-> ParseInt(OrDefault(UrlPort(u), PlainDefaultPort))]
    ELSE [kind |-> "tls", port |-> ParseInt(OrDefault(UrlPort(u), PlainDefaultPort))]

\* the dial createConnection issues for a supported URL
DialFor(u) ==
    IF IsPlain(u.scheme)
    THEN [kind |-> "plain", port |-> ParseInt(OrDefault(UrlPort(u), PlainDefaultPort))]
    ELSE [kind |-> "tls", port |-> ParseInt(OrDefault(UrlPort(u), TlsDefaultPort))]

\* --------------------------------------------------------------- headers
Lower(n) == IF n = "Auth" THEN "auth" ELSE n
ValidName(n) == n # "bad name"
Absent == "absent"
\* new Headers(): no name has a value
EmptyHeaders == [n \in {Lower(m) : m \in {k \in Names : ValidName(k)}} |-> Absent]
NoHeaders == [ok |-> FALSE, map |-> EmptyHeaders]

\* for (const header in headers) headersObject.set(header, headers[header]);
\* set() folds the name to lower case, overwrites, and throws on an invalid name
RECURSIVE CopyHeaders(_, _)
CopyHeaders(h, acc) ==
    IF h = << >> THEN [ok |-> TRUE, map |-> acc]
    ELSE IF ~ValidName(Head(h).name) THEN NoHeaders
    ELSE CopyHeaders(Tail(h), [acc EXCEPT ![Lower(Head(h).name)] = Head(h).value])

HeadersOf(h) == CopyHeaders(h, EmptyHeaders)

\* ----------------------------------------------------------------- state
VARIABLES
    pc,            \* position of createConnection
    url,           \* the url argument
    headers,       \* the caller's header object (the caller may mutate it)
    hdrsAtCall,    \* contents of the header object when createConnection was called
    dials,         \* Deno.connect / Deno.connectTls calls issued
    sock,          \* the raw socket conn: "none", "open", "closed"
    closeCalls,    \* conn.close() calls issued
    closeErrs,     \* call sites out of which a conn.close() exception escaped
    hsHeaders,     \* headersObject as handed to handshake()
    hsPc,          \* position of the handshake negotiator
    hsGot,         \* the negotiator has read a response chunk
    sinkState,     \* writableStream: "none", "writable", "closed", "aborted", "errored"
    sockOut,       \* bytes handed to the socket by conn.write
    sinkIn,        \* bytes of the chunks whose sink write completed successfully
    writes,        \* chunks written to the sink
    loopPc,        \* read loop: "idle", "reading" (conn.read pending), "done"
    loopErr,       \* exception that left the read loop's async function
    reads,         \* reads that returned data
    readLog,       \* what each successful read returned, in order
    emitted,       \* chunks accepted by controller.enqueue, in order
    queue,         \* chunks enqueued and not yet taken by a consumer
    srcState,      \* readableStream: "none", "readable", "closed", "cancelled"
    eofSeen,       \* a read reported end-of-stream (null)
    readErr,       \* a read rejected inside the read loop
    heap,          \* the read buffers allocated so far: the bytes stored in each
    chunkRefs,     \* the enqueued chunks as views: buffer and length
    maskCalls,     \* createMask() calls
    result,        \* what createConnection settled with
    sockAtSettle   \* state of the socket when createConnection settled

vars == << pc, url, headers, hdrsAtCall, dials, sock, closeCalls, closeErrs,
           hsHeaders, hsPc, hsGot, sinkState, sockOut, writes, loopPc, loopErr, reads,
           readLog, emitted, queue, srcState, eofSeen, result, sockAtSettle,
           sinkIn, readErr, heap, chunkRefs, maskCalls >>

callVars == << url, hdrsAtCall, dials >>
sinkVars == << sinkState, sockOut, writes, sinkIn >>
bufVars == << heap, chunkRefs >>
srcVars == << reads, readLog, emitted, queue, eofSeen, readErr, bufVars >>
loopVars == << loopPc, loopErr, srcState >>
hsVars == << hsHeaders, hsPc, hsGot >>
closeVars == << sock, closeCalls, closeErrs >>
settleVars == << pc, result, sockAtSettle, maskCalls >>

NoMask == << >>
Pending == [kind |-> "none", err |-> "none", mask |-> NoMask]
Rejected(e) == [kind |-> "error", err |-> e, mask |-> NoMask]
\* return { conn, readableStream, writableStream, mask: createMask() }
Resolved(m) == [kind |-> "conn", err |-> "none", mask |-> m]

\* faulty variant: the key is one byte short
CreateMaskShort == { [i \in 1..(MaskLen - 1) |-> 0] }
\* createMask(): 4 random bytes
CreateMask == MaskSamples

\* the state before the call, for url u and header object h
Start(u, h) ==
    /\ pc = "idle"
    /\ url = u
    /\ headers = h
    /\ hdrsAtCall = << >>
    /\ dials = << >>
    /\ sock = "none"
    /\ closeCalls = 0
    /\ closeErrs = {}
    /\ hsHeaders = NoHeaders
    /\ hsPc = "idle"
    /\ hsGot = FALSE
    /\ sinkState = "none"
    /\ sockOut = << >>
    /\ writes = 0
    /\ loopPc = "idle"
    /\ loopErr = "none"
    /\ reads = 0
    /\ readLog = << >>
    /\ emitted = << >>
    /\ queue = << >>
    /\ srcState = "none"
    /\ eofSeen = FALSE
    /\ result = Pending
    /\ sockAtSettle = "none"
    /\ sinkIn = << >>
    /\ readErr = FALSE
    /\ heap = << >>
    /\ chunkRefs = << >>
    /\ maskCalls = 0

\* ---------------------------------------------------------- the socket
\* conn.close(): closing a resource that is already closed throws BadResource
ConnClose(s) == [sock |-> "closed", threw |-> s # "open"]

\* effect of one conn.close() issued from call site `site`
DoClose(site) ==
    /\ sock' = ConnClose(sock).sock
    /\ closeCalls' = closeCalls + 1
    /\ closeErrs' = IF ConnClose(sock).threw THEN closeErrs \cup {site} ELSE closeErrs

\* conn.write(chunk) accepting n bytes; it throws on a closed socket, which
\* errors the writable stream; otherwise the sink's write completes
ConnWrite(chunk, n) ==
    /\ IF sock = "open"
       THEN /\ sockOut' = sockOut \o SubSeq(chunk, 1, n)
            /\ sinkIn' = sinkIn \o chunk
            /\ sinkState' = sinkState
       ELSE /\ sockOut' = sockOut
            /\ sinkIn' = sinkIn
            /\ sinkState' = "errored"

\* the byte counts conn.write can resolve with for a chunk
WriteSizes(chunk) == 1..Len(chunk)

\* --------------------------------------------------- createConnection
outcomeVars == << result, sockAtSettle, maskCalls >>

\* faulty variant: the final else branch is missing, every other scheme dials TLS
SupportedAnyScheme(s) == TRUE
Supported(s) == IsPlain(s) \/ IsTls(s)

\* lines 28-39: parse the URL and issue the dial, or throw on an unknown protocol
Call ==
    /\ pc = "idle"
    /\ hdrsAtCall' = headers
    /\ IF Supported(url.scheme)
       THEN /\ pc' = "dialing"
            /\ dials' = Append(dials, DialFor(url))
            /\ UNCHANGED << result, sockAtSettle >>
       ELSE /\ pc' = "failed"
            /\ result' = Rejected("UnknownProtocol")
            /\ sockAtSettle' = sock
            /\ UNCHANGED dials
    /\ UNCHANGED << url, headers, maskCalls, closeVars, hsVars, sinkVars, loopVars, srcVars >>

\* faulty variant: a failed dial is attempted once more before giving up
DialFailsRetried ==
    /\ pc = "dialing"
    /\ pc' = "failed"
    /\ dials' = Append(dials, DialFor(url))
    /\ result' = Rejected("TransportError")
    /\ sockAtSettle' = sock
    /\ UNCHANGED << url, hdrsAtCall, headers, maskCalls, closeVars, hsVars, sinkVars,
                    loopVars, srcVars >>

\* the awaited dial rejects
DialFails ==
    /\ pc = "dialing"
    /\ pc' = "failed"
    /\ result' = Rejected("TransportError")
    /\ sockAtSettle' = sock
    /\ UNCHANGED << callVars, headers, maskCalls, closeVars, hsVars, sinkVars, loopVars,
                    srcVars >>

\* faulty variant: the streams are built but start() does not begin the read loop
DialSucceedsNoLoop ==
    /\ pc = "dialing"
    /\ sock' = "open"
    /\ IF HeadersOf(headers).ok
       THEN /\ hsHeaders' = HeadersOf(headers)
            /\ sinkState' = "writable"
            /\ srcState' = "readable"
            /\ pc' = "wrapped"
            /\ UNCHANGED << result, sockAtSettle, loopPc >>
       ELSE /\ pc' = "failed"
            /\ result' = Rejected("TypeError")
            /\ sockAtSettle' = "open"
            /\ UNCHANGED << hsHeaders, sinkState, srcState, loopPc >>
    /\ UNCHANGED << callVars, headers, maskCalls, closeCalls, closeErrs, hsPc, hsGot,
                    sockOut, sinkIn, writes, loopErr, srcVars >>

\* the awaited dial resolves; lines 41-79 then run without suspension: the headers
\* are copied, both streams are constructed and start() issues the first conn.read
DialSucceeds ==
    /\ pc = "dialing"
    /\ sock' = "open"
    /\ IF HeadersOf(headers).ok
       THEN /\ hsHeaders' = HeadersOf(headers)
            /\ sinkState' = "writable"
            /\ srcState' = "readable"
            /\ loopPc' = "reading"
            /\ pc' = "wrapped"
            /\ UNCHANGED << result, sockAtSettle >>
       ELSE \* headersObject.set throws on line 43
            /\ pc' = "failed"
            /\ result' = Rejected("TypeError")
            /\ sockAtSettle' = "open"
            /\ UNCHANGED << hsHeaders, sinkState, srcState, loopPc >>
    /\ UNCHANGED << callVars, headers, maskCalls, closeCalls, closeErrs, hsPc, hsGot,
                    sockOut, sinkIn, writes, loopErr, srcVars >>

\* line 82, still in the same run of the event loop: handshake() is invoked with
\* headersObject and the two streams
InvokeHandshake ==
    /\ pc = "wrapped"
    /\ pc' = "handshake"
    /\ hsPc' = "write"
    /\ UNCHANGED << outcomeVars, callVars, headers, closeVars, hsHeaders, hsGot, sinkVars,
                    loopVars, srcVars >>

\* faulty variant: the catch block rethrows without closing the socket
HandshakeThrowsNoClose ==
    /\ pc = "handshake"
    /\ pc' = "failed"
    /\ result' = Rejected("HandshakeError")
    /\ sockAtSettle' = sock
    /\ hsPc' = "threw"
    /\ UNCHANGED << callVars, headers, maskCalls, closeVars, hsHeaders, hsGot, sinkVars,
                    loopVars, srcVars >>

\* faulty variant: the catch block closes the socket and falls through to the return
HandshakeThrowsSwallowed ==
    /\ pc = "handshake"
    /\ DoClose("cleanup")
    /\ pc' = "established"
    /\ \E m \in CreateMask : result' = Resolved(m)
    /\ maskCalls' = maskCalls + 1
    /\ sockAtSettle' = sock'
    /\ hsPc' = "threw"
    /\ UNCHANGED << callVars, headers, hsHeaders, hsGot, sinkVars, loopVars, srcVars >>

\* lines 83-86: handshake() rejects with e; conn.close(); throw e
HandshakeThrows ==
    /\ pc = "handshake"
    /\ DoClose("cleanup")
    /\ pc' = "failed"
    /\ result' = Rejected(IF ConnClose(sock).threw THEN "BadResource" ELSE "HandshakeError")
    /\ sockAtSettle' = sock'
    /\ hsPc' = "threw"
    /\ UNCHANGED << callVars, headers, maskCalls, hsHeaders, hsGot, sinkVars, loopVars,
                    srcVars >>

\* lines 82, 88-93: handshake() resolves (request written, response read)
HandshakeReturns ==
    /\ pc = "handshake"
    /\ hsPc = "read"
    /\ hsGot
    /\ sinkState = "writable"
    /\ \E m \in CreateMask : result' = Resolved(m)
    /\ maskCalls' = maskCalls + 1
    /\ pc' = "established"
    /\ sockAtSettle' = sock
    /\ hsPc' = "returned"
    /\ UNCHANGED << callVars, headers, closeVars, hsHeaders, hsGot, sinkVars,
                    loopVars, srcVars >>

\* ------------------------------------------------------- the read loop
RECURSIVE Flatten(_)
Flatten(ss) == IF ss = << >> THEN << >> ELSE Head(ss) \o Flatten(Tail(ss))

\* the peer's byte stream: its k-th byte has value k (mod 256)
WireByte(k) == k % 256

\* new Uint8Array(1024) after conn.read stored n bytes at its start
FilledBuffer(n) ==
    [i \in 1..BufSize |-> IF i <= n THEN WireByte(Len(Flatten(readLog)) + i) ELSE 0]

\* buffer.subarray(0, bytesRead)
Subarray(buf, n) == [i \in 1..n |-> buf[i]]

\* the byte counts a read can resolve with
ReadSizes == 0..(IF MaxChunk < BufSize THEN MaxChunk ELSE BufSize)

\* faulty variant: the buffer is allocated once, before the loop
AllocBufferHoisted == IF heap = << >> THEN Len(heap) + 1 ELSE Len(heap)
\* const buffer = new Uint8Array(1024) inside the loop: a buffer of its own
\* for every iteration
AllocBuffer == Len(heap) + 1

\* buffer b of heap h after a read stored `bytes` at its start (a buffer is
\* kept as the bytes stored in it so far; the rest of it is zero)
Store(h, b, bytes) ==
    IF b > Len(h) THEN Append(h, bytes)
    ELSE [h EXCEPT ![b] = bytes \o SubSeq(h[b], Len(bytes) + 1, Len(h[b]))]

\* what a chunk shows now: subarray() is a view of its buffer, not a copy
View(ref) ==
    [i \in 1..ref.len |-> IF i <= Len(heap[ref.buf]) THEN heap[ref.buf][i] ELSE 0]

\* controller.enqueue and controller.close throw a TypeError unless the stream is
\* readable with no close requested
CanCloseOrEnqueue(st) == st = "readable"

\* the finally block, lines 73-76: controller.close(); conn.close();
\* an exception of controller.close() skips conn.close()
LoopFinally ==
    /\ loopPc' = "done"
    /\ IF CanCloseOrEnqueue(srcState)
       THEN /\ srcState' = "closed"
            /\ DoClose("readLoop")
            /\ loopErr' = IF ConnClose(sock).threw THEN "BadResource" ELSE "none"
       ELSE /\ srcState' = srcState
            /\ loopErr' = "TypeError"
            /\ UNCHANGED closeVars

\* faulty variant: the loop leaves on any falsy bytesRead, zero included
ReadDataFalsyBreak(n) ==
    /\ loopPc = "reading"
    /\ pc # "wrapped"
    /\ sock = "open"
    /\ reads < MaxReads
    /\ reads' = reads + 1
    /\ readLog' = Append(readLog, Subarray(FilledBuffer(n), n))
    /\ heap' = Store(heap, AllocBuffer, Subarray(FilledBuffer(n), n))
    /\ IF n # 0 /\ CanCloseOrEnqueue(srcState)
       THEN /\ emitted' = Append(emitted, Subarray(FilledBuffer(n), n))
            /\ queue' = Append(queue, Subarray(FilledBuffer(n), n))
            /\ chunkRefs' = Append(chunkRefs, [buf |-> AllocBuffer, len |-> n])
            /\ UNCHANGED << loopVars, closeVars >>
       ELSE /\ LoopFinally
            /\ UNCHANGED << emitted, queue, chunkRefs >>
    /\ UNCHANGED << settleVars, callVars, headers, hsVars, sinkVars, eofSeen, readErr >>

\* faulty variant: the loop waits for the consumer while a chunk is buffered
ReadDataBackpressure(n) ==
    /\ loopPc = "reading"
    /\ pc # "wrapped"
    /\ sock = "open"
    /\ reads < MaxReads
    /\ queue = << >> \/ ~CanCloseOrEnqueue(srcState)
    /\ reads' = reads + 1
    /\ readLog' = Append(readLog, Subarray(FilledBuffer(n), n))
    /\ heap' = Store(heap, AllocBuffer, Subarray(FilledBuffer(n), n))
    /\ IF CanCloseOrEnqueue(srcState)
       THEN /\ emitted' = Append(emitted, Subarray(FilledBuffer(n), n))
            /\ queue' = Append(queue, Subarray(FilledBuffer(n), n))
            /\ chunkRefs' = Append(chunkRefs, [buf |-> AllocBuffer, len |-> n])
            /\ UNCHANGED << loopVars, closeVars >>
       ELSE /\ LoopFinally
            /\ UNCHANGED << emitted, queue, chunkRefs >>
    /\ UNCHANGED << settleVars, callVars, headers, hsVars, sinkVars, eofSeen, readErr >>

\* conn.read resolves with n bytes (lines 64-69); not before the run of the
\* event loop that issued the first read has ended
ReadData(n) ==
    /\ loopPc = "reading"
    /\ pc # "wrapped"
    /\ sock = "open"
    /\ reads < MaxReads
    /\ reads' = reads + 1
    /\ readLog' = Append(readLog, Subarray(FilledBuffer(n), n))
    /\ heap' = Store(heap, AllocBuffer, Subarray(FilledBuffer(n), n))
    /\ IF CanCloseOrEnqueue(srcState)
       THEN /\ emitted' = Append(emitted, Subarray(FilledBuffer(n), n))
            /\ queue' = Append(queue, Subarray(FilledBuffer(n), n))
            /\ chunkRefs' = Append(chunkRefs, [buf |-> AllocBuffer, len |-> n])
            /\ UNCHANGED << loopVars, closeVars >>
       ELSE \* enqueue throws; catch logs; finally runs
            /\ LoopFinally
            /\ UNCHANGED << emitted, queue, chunkRefs >>
    /\ UNCHANGED << settleVars, callVars, headers, hsVars, sinkVars, eofSeen, readErr >>

\* conn.read resolves with null (lines 66-68), then the finally block
ReadEOF ==
    /\ loopPc = "reading"
    /\ pc # "wrapped"
    /\ sock = "open"
    /\ eofSeen' = TRUE
    /\ LoopFinally
    /\ UNCHANGED << settleVars, callVars, headers, hsVars, sinkVars, reads,
                    readLog, emitted, queue, readErr, bufVars >>

\* conn.read rejects (connection reset, or the socket was closed locally);
\* catch logs (lines 71-72), then the finally block
ReadFails ==
    /\ loopPc = "reading"
    /\ pc # "wrapped"
    /\ readErr' = TRUE
    /\ LoopFinally
    /\ UNCHANGED << settleVars, callVars, headers, hsVars, sinkVars, reads,
                    readLog, emitted, queue, eofSeen, bufVars >>

\* -------------------------------------------- the handshake negotiator
\* handshake() is imported (line 2); it is modelled by what it may do with the
\* two endpoints it is given on line 82: write the request, read the response,
\* then resolve (HandshakeReturns) or at any point reject (HandshakeThrows)
\* the negotiator writes the upgrade request through the sink (line 48)
HsWrite ==
    /\ pc = "handshake"
    /\ hsPc = "write"
    /\ sinkState = "writable"
    /\ \E c \in ChunkInputs : \E n \in WriteSizes(c) : ConnWrite(c, n)
    /\ writes' = writes
    /\ hsPc' = "read"
    /\ UNCHANGED << settleVars, callVars, headers, closeVars, hsHeaders, hsGot,
                    loopVars, srcVars >>

\* the negotiator takes a chunk of the response from the source
HsRead ==
    /\ pc = "handshake"
    /\ hsPc = "read"
    /\ queue # << >>
    /\ queue' = Tail(queue)
    /\ hsGot' = TRUE
    /\ UNCHANGED << settleVars, callVars, headers, closeVars, hsHeaders, hsPc,
                    sinkVars, loopVars, reads, readLog, emitted, eofSeen, readErr,
                    bufVars >>

\* ------------------------------------------ the owner of the Connection
\* writableStream write(chunk), line 47-49
SinkWrite ==
    /\ pc = "established"
    /\ sinkState = "writable"
    /\ writes < MaxWrites
    /\ \E c \in ChunkInputs : \E n \in WriteSizes(c) : ConnWrite(c, n)
    /\ writes' = writes + 1
    /\ UNCHANGED << settleVars, callVars, headers, closeVars, hsVars, loopVars,
                    srcVars >>

\* writableStream close(), lines 50-52
SinkClose ==
    /\ pc = "established"
    /\ sinkState = "writable"
    /\ DoClose("sinkClose")
    /\ sinkState' = IF ConnClose(sock).threw THEN "errored" ELSE "closed"
    /\ UNCHANGED << settleVars, callVars, headers, hsVars, sockOut, sinkIn, writes,
                    loopVars, srcVars >>

\* writableStream abort(err), lines 53-56
SinkAbort ==
    /\ pc = "established"
    /\ sinkState = "writable"
    /\ DoClose("sinkAbort")
    /\ sinkState' = "aborted"
    /\ UNCHANGED << settleVars, callVars, headers, hsVars, sockOut, sinkIn, writes,
                    loopVars, srcVars >>

\* a consumer takes the next chunk of readableStream
SourceTake ==
    /\ pc = "established"
    /\ queue # << >>
    /\ queue' = Tail(queue)
    /\ UNCHANGED << settleVars, callVars, headers, closeVars, hsVars, sinkVars,
                    loopVars, reads, readLog, emitted, eofSeen, readErr, bufVars >>

\* a consumer cancels readableStream: the underlying source (lines 59-79) has no
\* cancel(), so the stream is closed, its queue dropped, and nothing else happens
SourceCancel ==
    /\ pc = "established"
    /\ srcState = "readable"
    /\ srcState' = "cancelled"
    /\ queue' = << >>
    /\ UNCHANGED << settleVars, callVars, headers, closeVars, hsVars, sinkVars,
                    loopPc, loopErr, reads, readLog, emitted, eofSeen, readErr, bufVars >>

\* the caller changes its header object after the call (it cannot run inside
\* the uninterrupted run of lines 41-82)
MutateHeaders ==
    /\ pc \notin {"idle", "wrapped"}
    /\ \E h \in HeaderInputs \ {headers} : headers' = h
    /\ UNCHANGED << settleVars, callVars, closeVars, hsVars, sinkVars, loopVars, srcVars >>

Next ==
    \/ Call
    \/ DialFails
    \/ DialSucceeds
    \/ InvokeHandshake
    \/ HandshakeThrows
    \/ HandshakeReturns
    \/ \E n \in ReadSizes : ReadData(n)
    \/ ReadEOF
    \/ ReadFails
    \/ HsWrite
    \/ HsRead
    \/ SinkWrite
    \/ SinkClose
    \/ SinkAbort
    \/ SourceTake
    \/ SourceCancel
    \/ MutateHeaders

\* one supported and one unsupported URL, every header object
Init == \E u \in UrlCore : \E h \in HeaderInputs : Start(u, h)
Spec == Init /\ [][Next]_vars

\* every URL, one header object
InitUrls == \E u \in UrlInputs : Start(u, << >>)
SpecUrls == InitUrls /\ [][Next]_vars


\* the read loop makes progress: every pending conn.read settles and its
\* continuation runs; the negotiator and the owner of the Connection are free
\* to do nothing
FairSpec ==
    Spec /\ WF_vars(ReadEOF \/ ReadFails \/ \E n \in ReadSizes : ReadData(n))

\* ================================================================ claims
SupportedSchemes == {"http", "ws", "https", "wss"}
HandshakeThrew == hsPc = "threw"
HandshakeReturned == hsPc = "returned"
DialSucceeded == sock # "none"

\* C1: when the handshake negotiator throws, createConnection rejects and the
\* raw socket is already closed when the rejection reaches the caller, however
\* the read loop interleaved.
C1_HandshakeFailureClosesSocket ==
    HandshakeThrew =>
        /\ pc = "failed"
        /\ result.kind = "error"
        /\ sockAtSettle = "closed"

\* the negotiator threw after the read loop had seen end-of-stream and ended
C1_Witness ==
    /\ HandshakeThrew
    /\ pc = "failed"
    /\ result.kind = "error"
    /\ sockAtSettle = "closed"
    /\ eofSeen
    /\ loopPc = "done"

\* C2: a Connection value is produced only on runs where the dial succeeded and
\* the negotiator returned; on runs with an unsupported scheme, a failed dial or
\* a throwing negotiator nothing of a Connection (not even a mask) is produced.
C2_ConnectionOnlyAfterHandshake ==
    /\ result.kind = "conn" =>
          /\ pc = "established"
          /\ DialSucceeded
          /\ HandshakeReturned
          /\ Len(result.mask) = MaskLen
    /\ (url.scheme \notin SupportedSchemes \/ HandshakeThrew \/ pc = "failed") =>
          /\ result.kind # "conn"
          /\ result.mask = NoMask
    /\ (pc \in {"idle", "dialing", "handshake"}) => result = Pending

C2_Witness ==
    /\ result.kind = "conn"
    /\ pc = "established"
    /\ HandshakeReturned
    /\ Len(dials) = 1

\* C3: at the moment createConnection resolves with a Connection its raw socket
\* is open, in every interleaving with the read loop.
C3_ResolvedSocketOpen ==
    result.kind = "conn" => sockAtSettle = "open"

\* C4: for a URL whose scheme is not http, ws, https or wss createConnection
\* fails and performs no socket operation: no dial, no read, no write, no close.
C4_UnsupportedSchemeNoSocketIO ==
    (url.scheme \notin SupportedSchemes /\ pc # "idle") =>
        /\ pc = "failed"
        /\ result.kind = "error"
        /\ dials = << >>
        /\ sock = "none"
        /\ loopPc = "idle"
        /\ readLog = << >>
        /\ sinkState = "none"
        /\ sockOut = << >>
        /\ closeCalls = 0

C4_Witness ==
    /\ url.scheme = "ftp"
    /\ pc = "failed"
    /\ result = Rejected("UnknownProtocol")
    /\ dials = << >>

\* C5: for a supported URL createConnection issues exactly one dial, plain for
\* http and ws, TLS for https and wss, to the URL's explicit port when it has
\* one and otherwise to 80 (plain) or 443 (TLS).
C5_OneDialByScheme ==
    (url.scheme \in SupportedSchemes /\ pc # "idle") =>
        /\ Len(dials) = 1
        /\ dials[1].kind = (IF url.scheme \in {"http", "ws"} THEN "plain" ELSE "tls")
        /\ dials[1].port =
              (IF url.port # NoPort THEN url.port
               ELSE IF url.scheme \in {"http", "ws"} THEN 80 ELSE 443)

\* wss with no port has dialed TLS on 443
C5_Witness ==
    /\ url = Url("wss", NoPort)
    /\ dials = << [kind |-> "tls", port |-> 443] >>
    /\ pc = "established"

\* C6: the inbound source emits exactly one chunk per successful read, in read
\* order, each chunk being exactly the bytes that read returned.
C6_OneChunkPerRead ==
    emitted = readLog

\* C7: when a read reports end-of-stream the read loop stops, the inbound
\* source is closed, and the socket is then in the closed state.
C7_EofClosesSourceThenSocket ==
    eofSeen =>
        /\ loopPc = "done"
        /\ srcState \in {"closed", "cancelled"}
        /\ sock = "closed"

\* C8: closing the socket is idempotent across all closers: no conn.close() on
\* an already closed socket raises an error out of the sink, the read loop's
\* cleanup or createConnection.
C8_CloseIdempotent ==
    closeErrs = {}

EndpointEnded ==
    \/ sinkState \in {"closed", "aborted"}
    \/ srcState \in {"closed", "cancelled"}

\* C9: after either endpoint ends (sink closed or aborted, source exhausted,
\* errored or cancelled) the socket eventually reaches the closed state, and
\* once closed it never becomes open again.
C9_EndingClosesSocket ==
    /\ EndpointEnded ~> (sock = "closed")
    /\ [][sock = "closed" => sock' = "closed"]_vars

\* C10: the headers handed to the negotiator are the contents the caller's
\* header object had when createConnection was called, whatever the caller
\* did to the object afterwards.
C10_HeadersSnapshotAtCall ==
    hsPc # "idle" => hsHeaders = HeadersOf(hdrsAtCall)


\* C11: when a sink write completes successfully while the socket is open,
\* exactly the bytes of the chunk, all of them and in order, have been handed
\* to the socket, also when conn.write accepts fewer bytes in one call.
C11_WriteHandsWholeChunk ==
    sockOut = sinkIn

\* C12: when the dial fails createConnection rejects with that failure; the
\* dial is not attempted again, no endpoint is constructed, no read loop is
\* started, the negotiator is never invoked and no close is issued.
C12_DialFailureStopsEverything ==
    result.err = "TransportError" =>
        /\ pc = "failed"
        /\ result.kind = "error"
        /\ Len(dials) = 1
        /\ sock = "none"
        /\ sinkState = "none"
        /\ srcState = "none"
        /\ loopPc = "idle"
        /\ readLog = << >>
        /\ hsPc = "idle"
        /\ closeCalls = 0

\* a TLS dial has failed
C12_Witness ==
    /\ result = Rejected("TransportError")
    /\ pc = "failed"
    /\ Len(dials) = 1
    /\ dials[1].kind = "tls"

MaskAttachedOnce ==
    /\ result.kind = "conn" =>
          /\ Len(result.mask) = 4
          /\ maskCalls = 1
          /\ HandshakeReturned
    /\ result.kind # "conn" =>
          /\ result.mask = NoMask
          /\ maskCalls = 0

\* C13: every Connection carries a masking key of exactly 4 bytes, generated
\* exactly once and attached only after the handshake succeeded; no operation
\* of this layer changes it afterwards.
C13_MaskOnceFourBytes ==
    /\ []MaskAttachedOnce
    /\ [][result.kind = "conn" => (result' = result /\ maskCalls' = maskCalls)]_vars

\* the sink was written and closed and the read loop ended, the key is still there
C13_Witness ==
    /\ result.kind = "conn"
    /\ Len(result.mask) = 4
    /\ maskCalls = 1
    /\ sinkIn # << >>
    /\ sinkState \in {"closed", "aborted", "errored"}
    /\ loopPc = "done"


\* C14: when a socket read fails inside the read loop the failure reaches
\* neither the caller of createConnection nor the inbound source as an error:
\* the source is closed normally and the socket is closed.
C14_ReadErrorEndsAsCompletion ==
    readErr =>
        /\ loopPc = "done"
        /\ result.err \notin {"ReadError"}
        /\ srcState \in {"closed", "cancelled"}
        /\ sock = "closed"

\* C15: when the negotiator throws E, createConnection rejects with E itself,
\* in every interleaving, also when the read loop closed the socket before
\* the failure cleanup ran.
C15_RethrowsHandshakeError ==
    HandshakeThrew => result = Rejected("HandshakeError")


\* C16: the read loop issues its first read when the source is constructed,
\* before the negotiator is invoked, and keeps reading until the first of
\* end-of-stream, read error or socket closure; once the socket is closed the
\* loop eventually terminates and no further read returns data.
C16_ReadLoopLifetime ==
    /\ [](pc = "wrapped" => (loopPc = "reading" /\ hsPc = "idle"))
    /\ [](hsPc # "idle" => loopPc # "idle")
    /\ [](loopPc = "done" => (eofSeen \/ readErr \/ sock = "closed"))
    /\ (sock = "closed") ~> (loopPc = "done")
    /\ [][(sock = "closed" \/ loopPc = "done") => readLog' = readLog]_vars


\* C17: the read loop never waits for the consumer: whatever is buffered, the
\* next read is issued and its chunk enqueued, so with a consumer that takes
\* nothing the buffer grows by one chunk per successful read.
C17_NoBackpressure ==
    /\ []((loopPc = "reading" /\ pc # "wrapped" /\ sock = "open" /\ reads < MaxReads)
            => ENABLED (\E n \in ReadSizes : ReadData(n)))
    /\ [][(readLog' # readLog /\ srcState = "readable")
            => (Len(queue') = Len(queue) + 1 /\ loopPc' = "reading")]_vars

\* nothing was taken, every chunk read so far is buffered, the loop reads on
C17_Witness ==
    /\ Len(queue) = MaxReads
    /\ queue = readLog
    /\ loopPc = "reading"
    /\ ~hsGot

BootstrapSteps ==
    { <<"idle", "dialing">>, <<"dialing", "wrapped">>, <<"wrapped", "handshake">>,
      <<"handshake", "established">>,
      <<"idle", "failed">>, <<"dialing", "failed">>, <<"wrapped", "failed">>,
      <<"handshake", "failed">> }

\* C18: an attempt moves through Idle, Dialing, Wrapped, HandshakePending in
\* that order, the negotiator being invoked only after the dial succeeded and
\* both endpoints exist; it ends in Established or Failed, both terminal, and
\* every attempt that fails after the dial succeeded has the socket closed.
C18_BootstrapStateMachine ==
    /\ [][pc' # pc => << pc, pc' >> \in BootstrapSteps]_vars
    /\ [](hsPc # "idle" => (DialSucceeded /\ sinkState # "none" /\ srcState # "none"))
    /\ []((pc = "established") = (result.kind = "conn"))
    /\ []((pc = "failed") = (result.kind = "error"))
    /\ []((pc = "failed" /\ DialSucceeded) => sock = "closed")

C20_EmittedChunksStable ==
    \A i \in 1..Len(chunkRefs) : View(chunkRefs[i]) = emitted[i]

\* a second read stored data after a non-empty chunk was emitted
C20_Witness ==
    /\ Len(chunkRefs) >= 1
    /\ Len(emitted[1]) = 1
    /\ Len(heap) >= 2
    /\ Len(heap[2]) = 1

====
